---- MODULE Spec2Model ----
(***************************************************************************)
(* Room/session relay of server.js: the rooms table, the per-socket fields  *)
(* (roomCode, playerIndex), the socket.io adapter rooms used for multicast, *)
(* and one action per socket event handler.                                 *)
(***************************************************************************)
EXTENDS Integers, Sequences, FiniteSets, TLC

\* ---------------------------------------------------------------- bounds
\* Number of client connections that ever exist (socket ids 1..NumSockets).
NumSockets == 3
\* Number of events the server handles in one run.
MaxEvents == 5

\* ------------------------------------------------------ program constants
\* `room.players.length >= 3` in joinRoom.
RoomCapacity == 3
\* `room.players.length < 2` in startMatch.
MinPlayersToStart == 2
\* `Math.floor(Math.random() * 2147483647)`.
SeedRange == 2147483647

\* ------------------------------------------------------------ value sets
Sockets == 1..NumSockets
\* Room codes a client may send.  "" is the empty string (falsy in JS).
Codes == {"", "A", "B"}
\* The display name each client sends (opaque to the server).
DisplayNames == <<"ann", "bob", "cy", "dee", "eve", "fay">>
NamesFor(s) == {DisplayNames[s]}
\* Values of socket.roomCode that are not strings.
Undefined == "<undefined>"
Null == "<null>"
\* rooms[code] when the key is absent.
NoRoom == [host |-> 0, players |-> <<>>, started |-> FALSE]
\* Seeds the model draws out of 0 .. SeedRange-1.
SeedSamples == {0, SeedRange - 1}
\* Opaque payloads of the relay events.
Payloads == {"d"}

VARIABLES
    rooms,        \* rooms[code]: NoRoom or [host, players, started]
    roomCode,     \* socket.roomCode
    playerIndex,  \* socket.playerIndex (-1: undefined)
    connected,    \* the socket is connected (in io.sockets.sockets)
    adapter,      \* io.sockets.adapter.rooms: code -> set of socket ids
    out,          \* messages emitted while handling the last event, in order:
                  \* [type, to, room, ...payload]; `to` is the set of sockets
                  \* that receive it and `room` the room code the handler
                  \* was dealing with (neither is part of the wire payload)
    last,         \* the last event handled: [ev, sock, code]
    events        \* number of events handled so far

vars == <<rooms, roomCode, playerIndex, connected, adapter, out, last, events>>

\* ------------------------------------------------------------- helpers
\* `!roomCode`
Falsy(rc) == rc \in {"", Undefined, Null}

\* rooms[roomCode] for a socket's roomCode; the property keys "undefined"
\* and "null" are not among Codes, so those lookups find nothing.
Lookup(rc) == IF rc \in Codes THEN rooms[rc] ELSE NoRoom

\* Live with the `if (rooms[roomCode])` test never taken.
LiveNever(c) == FALSE

\* `rooms[roomCode]` is truthy: the code maps to a Session.
Live(c) == rooms[c] # NoRoom

\* NamesOf computed before the newest player was pushed.
NamesOfStale(players) == [i \in 1..(Len(players) - 1) |-> players[i].name]

\* room.players.map(p => p.name)
NamesOf(players) == [i \in 1..Len(players) |-> players[i].name]

\* room.players.findIndex(p => p.id === id): zero-based, -1 when absent.
FindIndex(players, id) ==
    IF \E i \in 1..Len(players) : players[i].id = id
    THEN (CHOOSE i \in 1..Len(players) :
            /\ players[i].id = id
            /\ \A j \in 1..(i-1) : players[j].id # id) - 1
    ELSE -1

\* splice one position too early: removes the entry before slot k.
SpliceBefore(players, k) ==
    [i \in 1..(Len(players) - 1) |->
        IF i < k THEN players[i] ELSE players[i + 1]]

\* room.players.splice(k, 1) for zero-based k.
Splice(players, k) ==
    [i \in 1..(Len(players) - 1) |->
        IF i <= k THEN players[i] ELSE players[i + 1]]

\* Reindex with the `p.index = i` assignment left out.
ReindexSkipped(players) == players

\* room.players.forEach((p, i) => { p.index = i; ... })
Reindex(players) ==
    [i \in 1..Len(players) |-> [players[i] EXCEPT !.index = i - 1]]

\* io.to(code): every socket in the adapter room.
IoTo(c) == IF c \in Codes THEN adapter[c] ELSE {}
\* socket.to(code): the adapter room without the sender.
SocketTo(s, c) == IoTo(c) \ {s}

Event(ev, s, c) == [ev |-> ev, sock |-> s, code |-> c]

Init ==
    /\ rooms = [c \in Codes |-> NoRoom]
    /\ roomCode = [s \in Sockets |-> Undefined]
    /\ playerIndex = [s \in Sockets |-> -1]
    /\ connected = [s \in Sockets |-> TRUE]
    /\ adapter = [c \in Codes |-> {}]
    /\ out = <<>>
    /\ last = Event("init", 0, Undefined)
    /\ events = 0

\* ------------------------------------------------------------- handlers
\* socket.on('createRoom', ({ name, roomCode }) => ...)
CreateRoom(s, name, code) ==
    /\ connected[s]
    /\ last' = Event("createRoom", s, code)
    /\ IF Live(code)
       THEN /\ out' = <<[type |-> "error", to |-> {s}, room |-> code,
                         message |-> "Room already exists. Try again."]>>
            /\ UNCHANGED <<rooms, roomCode, playerIndex, connected, adapter>>
       ELSE /\ rooms' = [rooms EXCEPT ![code] =
                           [host |-> s,
                            players |-> <<[id |-> s, name |-> name, index |-> 0]>>,
                            started |-> FALSE]]
            /\ adapter' = [adapter EXCEPT ![code] = @ \cup {s}]
            /\ roomCode' = [roomCode EXCEPT ![s] = code]
            /\ playerIndex' = [playerIndex EXCEPT ![s] = 0]
            /\ out' = <<[type |-> "roomCreated", to |-> {s}, room |-> code,
                         roomCode |-> code]>>
            /\ UNCHANGED connected

\* RoomIsFull with `>` for `>=`.
RoomIsFullOffByOne(room) == Len(room.players) > RoomCapacity

\* `room.players.length >= 3`
RoomIsFull(room) == Len(room.players) >= RoomCapacity

\* HasStarted with the `room.started` gate left out.
HasStartedNever(room) == FALSE

\* `room.started` as joinRoom reads it.
HasStarted(room) == room.started

\* socket.on('joinRoom', ({ name, roomCode }) => ...)
JoinRoom(s, name, code) ==
    /\ connected[s]
    /\ last' = Event("joinRoom", s, code)
    /\ LET room == rooms[code] IN
       IF ~Live(code)
       THEN /\ out' = <<[type |-> "error", to |-> {s}, room |-> code,
                         message |-> "Room not found. Check the code."]>>
            /\ UNCHANGED <<rooms, roomCode, playerIndex, connected, adapter>>
       ELSE IF RoomIsFull(room)
       THEN /\ out' = <<[type |-> "error", to |-> {s}, room |-> code,
                         message |-> "Room is full (3/3 players)."]>>
            /\ UNCHANGED <<rooms, roomCode, playerIndex, connected, adapter>>
       ELSE IF HasStarted(room)
       THEN /\ out' = <<[type |-> "error", to |-> {s}, room |-> code,
                         message |-> "Game already started."]>>
            /\ UNCHANGED <<rooms, roomCode, playerIndex, connected, adapter>>
       ELSE LET idx == Len(room.players)
                players == Append(room.players,
                                  [id |-> s, name |-> name, index |-> idx])
                joinedRoom == adapter[code] \cup {s}
            IN /\ rooms' = [rooms EXCEPT ![code].players = players]
               /\ adapter' = [adapter EXCEPT ![code] = joinedRoom]
               /\ roomCode' = [roomCode EXCEPT ![s] = code]
               /\ playerIndex' = [playerIndex EXCEPT ![s] = idx]
               /\ out' = <<[type |-> "joined", to |-> {s}, room |-> code,
                            playerIndex |-> idx,
                            hostName |-> players[1].name,
                            players |-> NamesOf(players)],
                           [type |-> "playerJoined", to |-> joinedRoom,
                            room |-> code,
                            players |-> NamesOf(players),
                            playerCount |-> Len(players)]>>
               /\ UNCHANGED connected

\* MayStart without the `socket.id !== room.host` test.
MayStartAnyone(s, room) ==
    /\ room # NoRoom
    /\ ~(Len(room.players) < MinPlayersToStart)

\* The guards of startMatch:
\*   if (!room || socket.id !== room.host) return;
\*   if (room.players.length < 2) return;
MayStart(s, room) ==
    /\ room # NoRoom
    /\ s = room.host
    /\ ~(Len(room.players) < MinPlayersToStart)

\* socket.on('startMatch', () => ...)
StartMatch(s) ==
    /\ connected[s]
    /\ last' = Event("startMatch", s, roomCode[s])
    /\ LET rc == roomCode[s]
           room == Lookup(rc)
       IN IF ~MayStart(s, room)
          THEN /\ out' = <<>>
               /\ UNCHANGED <<rooms, roomCode, playerIndex, connected, adapter>>
          ELSE /\ rooms' = [rooms EXCEPT ![rc].started = TRUE]
               /\ \E sharedSeed \in SeedSamples :
                    out' = <<[type |-> "matchStart", to |-> IoTo(rc),
                              room |-> rc,
                              names |-> NamesOf(room.players),
                              playerCount |-> Len(room.players),
                              seed |-> sharedSeed]>>
               /\ UNCHANGED <<roomCode, playerIndex, connected, adapter>>

\* BoundToLiveRoom with the guard left out.
BoundUnchecked(rc) == TRUE

\* `if (!roomCode || !rooms[roomCode]) return;` of the relay handlers and of
\* disconnect: TRUE when the handler goes on.
BoundToLiveRoom(rc) == ~Falsy(rc) /\ Lookup(rc) # NoRoom

\* The common shape of the six relay handlers: nothing but `out` changes.
Relay(ev, s, msg) ==
    /\ connected[s]
    /\ last' = Event(ev, s, roomCode[s])
    /\ out' = IF BoundToLiveRoom(roomCode[s]) THEN <<msg>> ELSE <<>>
    /\ UNCHANGED <<rooms, roomCode, playerIndex, connected, adapter>>

\* socket.on('mpPower', (data) => ...): data = {type}
MpPower(s, d) ==
    Relay("mpPower", s,
          [type |-> "mpPower", to |-> SocketTo(s, roomCode[s]),
           room |-> roomCode[s],
           playerIndex |-> playerIndex[s], data |-> d])

\* socket.on('mpSync', (data) => ...): data = {score, lives, dead}
MpSync(s, d) ==
    Relay("mpSync", s,
          [type |-> "mpSync", to |-> SocketTo(s, roomCode[s]),
           room |-> roomCode[s],
           playerIndex |-> playerIndex[s], data |-> d])

\* socket.on('mpSyncAll', (data) => ...)
MpSyncAll(s, d) ==
    Relay("mpSyncAll", s,
          [type |-> "mpSyncAll", to |-> SocketTo(s, roomCode[s]),
           room |-> roomCode[s], data |-> d])

\* socket.on('gameOver', (data) => ...)
GameOver(s, d) ==
    Relay("gameOver", s,
          [type |-> "gameOver", to |-> IoTo(roomCode[s]),
           room |-> roomCode[s], data |-> d])

\* socket.on('mpTimeUp', (data) => ...)
MpTimeUp(s, d) ==
    Relay("mpTimeUp", s,
          [type |-> "mpTimeUp", to |-> IoTo(roomCode[s]),
           room |-> roomCode[s], data |-> d])

\* socket.on('mpRestart', () => ...)
MpRestart(s) ==
    Relay("mpRestart", s,
          [type |-> "mpRestart", to |-> IoTo(roomCode[s]),
           room |-> roomCode[s]])

\* s.playerIndex = i of the reindex loop: the sockets of the remaining
\* players that io.sockets.sockets still holds get the position of their
\* (last) entry; every other socket keeps its playerIndex.
Rebind(players, conn, pidx) ==
    [t \in Sockets |->
        IF conn[t] /\ \E i \in 1..Len(players) : players[i].id = t
        THEN (CHOOSE i \in 1..Len(players) :
                /\ players[i].id = t
                /\ \A j \in (i+1)..Len(players) : players[j].id # t) - 1
        ELSE pidx[t]]

\* `if (!room.started)` of the guest branch: the player list is edited.
EditsRoster(room) == ~room.started

\* The body of socket.on('disconnect', ...), run with the adapter rooms `ad`
\* and the connected sockets `conn` that socket.io presents to the handler.
OnDisconnect(s, ad, conn) ==
    LET rc == roomCode[s]
        room == Lookup(rc)
        k == FindIndex(room.players, s)
    IN IF ~BoundToLiveRoom(rc) \/ k = -1
       THEN /\ out' = <<>>
            /\ adapter' = ad
            /\ UNCHANGED <<rooms, roomCode, playerIndex>>
       ELSE IF s = room.host
       THEN \* Host left: end game for everyone.
            LET members == {sid \in ad[rc] : conn[sid]}
            IN /\ out' = <<[type |-> "hostDisconnected", to |-> ad[rc],
                            room |-> rc]>>
               /\ adapter' = [ad EXCEPT ![rc] = @ \ members]
               /\ roomCode' = [t \in Sockets |->
                                 IF t \in members THEN Null ELSE roomCode[t]]
               /\ rooms' = [rooms EXCEPT ![rc] = NoRoom]
               /\ UNCHANGED playerIndex
       ELSE \* Guest left.
            LET notice == [type |-> "playerDisconnected", to |-> ad[rc],
                           room |-> rc, playerIndex |-> k]
            IN IF EditsRoster(room)
               THEN LET players == Reindex(Splice(room.players, k))
                    IN /\ rooms' = [rooms EXCEPT ![rc].players = players]
                       /\ playerIndex' = Rebind(players, conn, playerIndex)
                       /\ out' = <<notice,
                                   [type |-> "playerJoined", to |-> ad[rc],
                                    room |-> rc,
                                    players |-> NamesOf(players),
                                    playerCount |-> Len(players)]>>
                       /\ adapter' = ad
                       /\ UNCHANGED roomCode
               ELSE /\ out' = <<notice>>
                    /\ adapter' = ad
                    /\ UNCHANGED <<rooms, roomCode, playerIndex>>

\* The transport reports the end of connection s.  socket.io takes the
\* socket out of every adapter room and out of io.sockets.sockets before it
\* emits 'disconnect', so the handler runs on the adapter without s.
Disconnect(s) ==
    /\ connected[s]
    /\ last' = Event("disconnect", s, roomCode[s])
    /\ connected' = [connected EXCEPT ![s] = FALSE]
    /\ OnDisconnect(s, [c \in Codes |-> adapter[c] \ {s}],
                    [connected EXCEPT ![s] = FALSE])

\* A transport that reports the end of the same connection a second time:
\* the handler body runs again for a socket that is already gone.
DisconnectAgain(s) ==
    /\ ~connected[s]
    /\ last' = Event("disconnectAgain", s, roomCode[s])
    /\ UNCHANGED connected
    /\ OnDisconnect(s, adapter, connected)

\* Every handler runs once per event the server receives.
Handled == events < MaxEvents /\ events' = events + 1

Next ==
    \/ \E s \in Sockets, c \in Codes : \E n \in NamesFor(s) : Handled /\ CreateRoom(s, n, c)
    \/ \E s \in Sockets, c \in Codes : \E n \in NamesFor(s) : Handled /\ JoinRoom(s, n, c)
    \/ \E s \in Sockets : Handled /\ StartMatch(s)
    \/ \E s \in Sockets, d \in Payloads : Handled /\ MpPower(s, d)
    \/ \E s \in Sockets, d \in Payloads : Handled /\ MpSync(s, d)
    \/ \E s \in Sockets, d \in Payloads : Handled /\ MpSyncAll(s, d)
    \/ \E s \in Sockets, d \in Payloads : Handled /\ GameOver(s, d)
    \/ \E s \in Sockets, d \in Payloads : Handled /\ MpTimeUp(s, d)
    \/ \E s \in Sockets : Handled /\ MpRestart(s)
    \/ \E s \in Sockets : Handled /\ Disconnect(s)

Spec == Init /\ [][Next]_vars

\* The same program under a transport that may repeat a disconnect signal.
NextRedelivery ==
    \/ Next
    \/ \E s \in Sockets : Handled /\ DisconnectAgain(s)

SpecRedelivery == Init /\ [][NextRedelivery]_vars
\* A handler throws a TypeError.  Nothing in server.js catches it and
\* socket.io calls the handler outside any try block, so the exception is
\* uncaught and the node process ends: every room and every connection is
\* lost, and nothing is emitted.
Fault(ev, s) ==
    /\ last' = Event(ev, s, roomCode[s])
    /\ out' = <<>>
    /\ rooms' = [c \in Codes |-> NoRoom]
    /\ roomCode' = [t \in Sockets |-> Undefined]
    /\ playerIndex' = [t \in Sockets |-> -1]
    /\ connected' = [t \in Sockets |-> FALSE]
    /\ adapter' = [c \in Codes |-> {}]

\* A handler returns without emitting or writing anything.
Dropped(ev, s) ==
    /\ last' = Event(ev, s, roomCode[s])
    /\ out' = <<>>
    /\ UNCHANGED <<rooms, roomCode, playerIndex, connected, adapter>>

\* createRoom sent with no payload object: `({ name, roomCode })`
\* destructures undefined.
CreateRoomNoPayload(s) ==
    /\ connected[s]
    /\ Fault("createRoomNoPayload", s)

\* joinRoom sent with no payload object.
JoinRoomNoPayload(s) ==
    /\ connected[s]
    /\ Fault("joinRoomNoPayload", s)

\* mpPower sent with no payload object: past the guard, `data.type` reads a
\* property of undefined.
MpPowerNoPayload(s) ==
    /\ connected[s]
    /\ IF BoundToLiveRoom(roomCode[s])
       THEN Fault("mpPowerNoPayload", s)
       ELSE Dropped("mpPowerNoPayload", s)

\* mpSync sent with no payload object: past the guard, `data.score` reads a
\* property of undefined.
MpSyncNoPayload(s) ==
    /\ connected[s]
    /\ IF BoundToLiveRoom(roomCode[s])
       THEN Fault("mpSyncNoPayload", s)
       ELSE Dropped("mpSyncNoPayload", s)

\* The same program with clients that may leave the payload object out.
NextMalformed ==
    \/ Next
    \/ \E s \in Sockets : Handled /\ CreateRoomNoPayload(s)
    \/ \E s \in Sockets : Handled /\ JoinRoomNoPayload(s)
    \/ \E s \in Sockets : Handled /\ MpPowerNoPayload(s)
    \/ \E s \in Sockets : Handled /\ MpSyncNoPayload(s)

SpecMalformed == Init /\ [][NextMalformed]_vars

\* ------------------------------------------------------------------ claims
\* Messages of type ty that the last event emitted for room c.
Emitted(ty, c) == {i \in 1..Len(out) : out[i].type = ty /\ out[i].room = c}

\* The socket ids on a player list.
Ids(players) == {players[i].id : i \in 1..Len(players)}

\* C1: a Session emits at most one matchStart: a startMatch handled while
\* the Session is already InProgress is a no-op (no new seed, no second
\* matchStart, nothing changes).
C1_StartMatchOnlyOnce ==
    [][\A c \in Codes :
          (Live(c) /\ rooms[c].started) => Emitted("matchStart", c)' = {}]_vars

\* C2: host authority.  A step that moves a Session to InProgress or emits
\* matchStart for it is a startMatch sent by that Session's host, bound to
\* it, with at least 2 members; a startMatch from anyone else (a guest, an
\* unbound connection, a connection whose room is gone) or from a host with
\* fewer than 2 members emits nothing and changes no Session or binding.
C2_HostAuthority ==
    [][/\ \A c \in Codes :
            (\/ ~rooms[c].started /\ rooms'[c].started
             \/ Emitted("matchStart", c)' # {})
            => /\ last'.ev = "startMatch"
               /\ last'.code = c
               /\ roomCode[last'.sock] = c
               /\ Live(c)
               /\ rooms[c].host = last'.sock
               /\ Len(rooms[c].players) >= 2
       /\ (/\ last'.ev = "startMatch"
           /\ \/ last'.code \notin Codes
              \/ ~Live(last'.code)
              \/ rooms[last'.code].host # last'.sock
              \/ Len(rooms[last'.code].players) < 2)
          => /\ out' = <<>>
             /\ UNCHANGED <<rooms, roomCode, playerIndex, adapter>>]_vars

\* C2 witness: a guest of a two-member lobby has just sent startMatch and
\* was ignored.
C2_GuestStartIgnored ==
    /\ last.ev = "startMatch"
    /\ last.code \in Codes
    /\ Live(last.code)
    /\ rooms[last.code].host # last.sock
    /\ last.sock \in Ids(rooms[last.code].players)
    /\ Len(rooms[last.code].players) >= 2
    /\ ~rooms[last.code].started
    /\ out = <<>>

\* C3: every live Session has between 1 and 3 members.
C3_MemberCount ==
    \A c \in Codes :
        Live(c) => /\ 1 <= Len(rooms[c].players)
                   /\ Len(rooms[c].players) <= 3

\* C3 witness: a join has just been turned away from a Session of 3.
C3_FullRoomRejects ==
    /\ last.ev = "joinRoom"
    /\ Live(last.code)
    /\ Len(rooms[last.code].players) = 3
    /\ Len(out) = 1
    /\ out[1].type = "error"
    /\ out[1].message = "Room is full (3/3 players)."

\* C4: while a Session is in Lobby, members[i].slot = i at every position.
C4_SlotInvariant ==
    \A c \in Codes :
        (Live(c) /\ ~rooms[c].started)
        => \A i \in 1..Len(rooms[c].players) : rooms[c].players[i].index = i - 1

\* C4 witness: the guest at slot 1 of a three-member lobby has just left and
\* two members remain.
C4_MiddleGuestLeft ==
    /\ last.ev = "disconnect"
    /\ last.code \in Codes
    /\ Live(last.code)
    /\ ~rooms[last.code].started
    /\ Len(rooms[last.code].players) = 2
    /\ \E i \in Emitted("playerDisconnected", last.code) : out[i].playerIndex = 1

\* C5: a joinRoom succeeds (the joiner gets `joined`, the member list grows)
\* only when the target Session exists, is in Lobby and has fewer than 3
\* members; a join on a 3-member Session gets the RoomFull error, a join on
\* a started Session gets an error, and either leaves every Session as it
\* was; the member list of a started Session never grows again.
C5_JoinGates ==
    [][/\ \A c \in Codes :
            (\/ Emitted("joined", c)' # {}
             \/ Live(c) /\ Len(rooms'[c].players) > Len(rooms[c].players))
            => /\ last'.ev = "joinRoom"
               /\ last'.code = c
               /\ Live(c)
               /\ ~rooms[c].started
               /\ Len(rooms[c].players) < 3
       /\ (last'.ev = "joinRoom" /\ Live(last'.code)
           /\ Len(rooms[last'.code].players) = 3)
          => /\ out' = <<[type |-> "error", to |-> {last'.sock},
                          room |-> last'.code,
                          message |-> "Room is full (3/3 players)."]>>
             /\ UNCHANGED <<rooms, roomCode, playerIndex, adapter>>
       /\ (last'.ev = "joinRoom" /\ Live(last'.code)
           /\ rooms[last'.code].started)
          => /\ Len(out') = 1
             /\ out'[1].type = "error"
             /\ out'[1].to = {last'.sock}
             /\ UNCHANGED <<rooms, roomCode, playerIndex, adapter>>]_vars

\* C5 witness: a started Session has lost a guest and a join on it has just
\* been turned away with AlreadyStarted.
C5_NoJoinAfterStart ==
    /\ last.ev = "joinRoom"
    /\ Live(last.code)
    /\ rooms[last.code].started
    /\ \E t \in Ids(rooms[last.code].players) : ~connected[t]
    /\ Len(out) = 1
    /\ out[1].message = "Game already started."
\* The events of the six relay handlers.
RelayEvents ==
    {"mpPower", "mpSync", "mpSyncAll", "gameOver", "mpTimeUp", "mpRestart"}

\* C6: idempotent teardown.  A second disconnect signal for a connection
\* whose disconnect was already handled emits nothing and changes no
\* Session and no Registry binding, for host and guest, in either phase.
C6_SecondDisconnectIsNoOp ==
    [][last'.ev = "disconnectAgain"
       => /\ out' = <<>>
          /\ UNCHANGED <<rooms, roomCode, playerIndex, adapter, connected>>]_vars

\* C7: no Session outlives its host's connection.  Whenever a connection
\* that is the host of a Session disconnects, that Session is gone after
\* the same step (so its code is free for a fresh createRoom).
C7_HostGoneSessionGone ==
    [][last'.ev = "disconnect"
       => \A c \in Codes :
            (Live(c) /\ rooms[c].host = last'.sock) => ~Live(c)']_vars

\* C8: when the host of a Session disconnects, in either phase, every
\* remaining member connection receives hostDisconnected exactly once and
\* afterwards no connection is bound to that room code; relay events and
\* startMatch sent later by a connection unbound that way are dropped.
C8_HostTeardown ==
    [][/\ last'.ev = "disconnect"
          => \A c \in Codes :
               (Live(c) /\ rooms[c].host = last'.sock)
               => /\ \A t \in Ids(rooms[c].players) :
                        connected'[t]
                        => Cardinality({i \in Emitted("hostDisconnected", c)' :
                                           t \in out'[i].to}) = 1
                  /\ \A t \in Sockets : connected'[t] => roomCode'[t] # c
       /\ (/\ last'.ev \in RelayEvents \cup {"startMatch"}
           /\ roomCode[last'.sock] = Null)
          => /\ out' = <<>>
             /\ UNCHANGED <<rooms, roomCode, playerIndex, adapter>>]_vars

\* C9: when a guest at slot k disconnects from a Session in Lobby,
\* playerDisconnected{playerIndex: k} is broadcast, that Player is removed,
\* every remaining member's slot is its new position and the Registry slot
\* of its connection is the same, then playerJoined with the shrunk roster
\* and count is broadcast; the phase stays Lobby and no matchStart is sent.
C9_LobbyGuestLeaves ==
    [][last'.ev = "disconnect"
       => \A c \in Codes :
            LET players == rooms[c].players
                k == FindIndex(players, last'.sock)
                left == rooms'[c].players
            IN (Live(c) /\ ~rooms[c].started /\ rooms[c].host # last'.sock
                /\ k >= 1)
               => /\ Live(c)'
                  /\ ~rooms'[c].started
                  /\ Len(left) = Len(players) - 1
                  /\ \A i \in 1..Len(left) :
                        /\ left[i].index = i - 1
                        /\ left[i].id = players[IF i <= k THEN i ELSE i + 1].id
                        /\ left[i].name = players[IF i <= k THEN i ELSE i + 1].name
                        /\ (connected'[left[i].id] /\ roomCode'[left[i].id] = c)
                           => playerIndex'[left[i].id] = i - 1
                  /\ Len(out') = 2
                  /\ out'[1].type = "playerDisconnected"
                  /\ out'[1].room = c
                  /\ out'[1].playerIndex = k
                  /\ out'[2].type = "playerJoined"
                  /\ out'[2].room = c
                  /\ out'[2].players = NamesOf(left)
                  /\ out'[2].playerCount = Len(left)]_vars

\* C10: when a guest disconnects from a Session that is InProgress,
\* playerDisconnected with that guest's slot is broadcast and nothing else:
\* no playerJoined, the Session (members, slots) is unchanged and so is the
\* Registry slot of every surviving connection.
C10_InProgressGuestLeaves ==
    [][last'.ev = "disconnect"
       => \A c \in Codes :
            LET k == FindIndex(rooms[c].players, last'.sock)
            IN (Live(c) /\ rooms[c].started /\ rooms[c].host # last'.sock
                /\ k >= 1)
               => /\ Len(out') = 1
                  /\ out'[1].type = "playerDisconnected"
                  /\ out'[1].room = c
                  /\ out'[1].playerIndex = k
                  /\ rooms'[c] = rooms[c]
                  /\ \A t \in Sockets :
                        connected'[t] => playerIndex'[t] = playerIndex[t]]_vars
\* The connected sockets on a player list.
ConnectedMembers(players) == {t \in Ids(players) : connected[t]}

\* roster lists the names of players, position by position, and every
\* player's slot is its position.
IsRosterOf(roster, players) ==
    /\ Len(roster) = Len(players)
    /\ \A i \in 1..Len(players) :
          roster[i] = players[i].name /\ players[i].index = i - 1

RelayToOthers == {"mpPower", "mpSync", "mpSyncAll"}

\* C12: a relay event sent by a connection bound to a live room is
\* delivered to exactly the connections of that room, without the sender
\* for power, sync and syncAll and with the sender for gameOver, timeUp and
\* restart; nobody outside the room receives it.
C12_RelayRecipients ==
    [][\A c \in Codes :
         (/\ last'.ev \in RelayEvents
          /\ roomCode[last'.sock] = c
          /\ Live(c))
         => LET s == last'.sock
                room == ConnectedMembers(rooms[c].players)
            IN /\ Len(out') = 1
               /\ out'[1].type = last'.ev
               /\ s \in room
               /\ out'[1].to = IF last'.ev \in RelayToOthers
                               THEN room \ {s} ELSE room]_vars
\* C13: a relay event or a disconnect from a connection with no bound live
\* room (never joined, or unbound by host teardown) is dropped silently: it
\* emits nothing, not even an error, and changes no Session and no Registry
\* binding; and no relay event at all changes any Session or binding.
C13_UnboundDropped ==
    [][/\ (/\ last'.ev \in RelayEvents \cup {"disconnect"}
           /\ \/ roomCode[last'.sock] \notin Codes
              \/ rooms[roomCode[last'.sock]] = NoRoom)
          => /\ out' = <<>>
             /\ UNCHANGED <<rooms, roomCode, playerIndex>>
       /\ last'.ev \in RelayEvents
          => UNCHANGED <<rooms, roomCode, playerIndex, adapter, connected>>]_vars

\* C13 witness: a former guest, unbound by the teardown of its room, has
\* just sent a relay event and nothing was emitted.
C13_FormerGuestRelayDropped ==
    /\ last.ev \in RelayEvents
    /\ roomCode[last.sock] = Null
    /\ connected[last.sock]
    /\ out = <<>>
\* The error text joinRoom answers for the target room, by the first gate
\* that turns the join away.
JoinRejection(room) ==
    IF room = NoRoom THEN "Room not found. Check the code."
    ELSE IF Len(room.players) >= 3 THEN "Room is full (3/3 players)."
    ELSE "Game already started."

\* C14: a rejected createRoom (RoomExists) or joinRoom (RoomNotFound,
\* RoomFull, AlreadyStarted) sends exactly one error message, to the caller
\* only, and leaves every Session and every Registry binding unchanged.
C14_RejectionsAreInert ==
    [][/\ (last'.ev = "createRoom" /\ rooms[last'.code] # NoRoom)
          => /\ out' = <<[type |-> "error", to |-> {last'.sock},
                          room |-> last'.code,
                          message |-> "Room already exists. Try again."]>>
             /\ UNCHANGED <<rooms, roomCode, playerIndex, adapter, connected>>
       /\ (/\ last'.ev = "joinRoom"
           /\ \/ rooms[last'.code] = NoRoom
              \/ Len(rooms[last'.code].players) >= 3
              \/ rooms[last'.code].started)
          => /\ out' = <<[type |-> "error", to |-> {last'.sock},
                          room |-> last'.code,
                          message |-> JoinRejection(rooms[last'.code])]>>
             /\ UNCHANGED <<rooms, roomCode, playerIndex, adapter, connected>>]_vars

\* C14 witness: a createRoom for the code of a two-member Session has just
\* been answered with RoomExists.
C14_CreateOnLiveCodeRejected ==
    /\ last.ev = "createRoom"
    /\ Len(rooms[last.code].players) >= 2
    /\ Len(out) = 1
    /\ out[1].type = "error"
    /\ out[1].message = "Room already exists. Try again."
\* C15: no two Players of the same Session have the same connectionId,
\* also after a member sends joinRoom for its own room again.
C15_UniqueConnectionIds ==
    \A c \in Codes :
        \A i, j \in 1..Len(rooms[c].players) :
            rooms[c].players[i].id = rooms[c].players[j].id => i = j

\* C16: every live Session has a non-empty code: a createRoom with the
\* empty code never creates a Session.
C16_NoEmptyCode ==
    rooms[""] = NoRoom
\* The events that arrive without their payload object.
NoPayloadEvents ==
    {"createRoomNoPayload", "joinRoomNoPayload",
     "mpPowerNoPayload", "mpSyncNoPayload"}

\* C17: no event with an absent payload puts the process into a fault
\* state: after createRoom or joinRoom with no payload object, or power or
\* sync with no payload object from a connection bound to a live room, all
\* Sessions are intact and every connection is still served.
C17_NoPayloadNoFault ==
    [][last'.ev \in NoPayloadEvents
       => /\ rooms' = rooms
          /\ connected' = connected
          /\ roomCode' = roomCode]_vars
\* C18: in every reachable state a connection bound to (code, slot) in the
\* Registry is a member of the Session of that code at exactly that slot,
\* so the playerIndex attached to its relayed power and sync messages is
\* the slot of its Player entry.
C18_RegistryMatchesSession ==
    \A s \in Sockets :
        (connected[s] /\ roomCode[s] \in Codes)
        => /\ Live(roomCode[s])
           /\ \E i \in 1..Len(rooms[roomCode[s]].players) :
                 /\ rooms[roomCode[s]].players[i].id = s
                 /\ rooms[roomCode[s]].players[i].index = playerIndex[s]

\* C19: operations on different room codes are independent.  An event
\* that targets the Session of one code (join, start, relay, guest
\* disconnect, host teardown) leaves the Session of every other code
\* unchanged, leaves the binding (room and slot) of every other connection
\* bound to another code unchanged, and delivers nothing to them.
C19_RoomsIndependent ==
    [][(/\ last'.ev \in RelayEvents \cup {"joinRoom", "startMatch", "disconnect"}
        /\ last'.code \in Codes)
       => \A b \in Codes \ {last'.code} :
            /\ rooms'[b] = rooms[b]
            /\ \A t \in Sockets \ {last'.sock} :
                 (connected[t] /\ roomCode[t] = b /\ Live(b))
                 => /\ roomCode'[t] = b
                    /\ playerIndex'[t] = playerIndex[t]
                    /\ \A i \in 1..Len(out') : t \notin out'[i].to]_vars
\* C20: in both phases the first member of every live Session is its
\* creator: a created Session has its creator as host, the first member's
\* connection id equals the host, its slot is 0, and while the Session
\* lives the host never changes and no removal or renumbering puts another
\* Player first.
C20_HostStaysFirst ==
    [][\A c \in Codes :
          /\ Live(c)' =>
               /\ Len(rooms'[c].players) >= 1
               /\ rooms'[c].players[1].id = rooms'[c].host
               /\ rooms'[c].players[1].index = 0
          /\ (~Live(c) /\ Live(c)') =>
               /\ last'.ev = "createRoom"
               /\ rooms'[c].host = last'.sock
          /\ (Live(c) /\ Live(c)') =>
               /\ rooms'[c].host = rooms[c].host
               /\ rooms'[c].players[1] = rooms[c].players[1]]_vars

\* A guest has just been removed from a lobby that once held three
\* members, and the creator is still first.
C20_GuestRemovedHostFirst ==
    /\ last.ev = "disconnect"
    /\ last.code \in Codes
    /\ Live(last.code)
    /\ ~rooms[last.code].started
    /\ last.sock \notin Ids(rooms[last.code].players)
    /\ Emitted("playerDisconnected", last.code) # {}
    /\ rooms[last.code].players[1].id = rooms[last.code].host
    /\ rooms[last.code].host # last.sock
====
